---- MODULE Spec2Model ----
(***************************************************************************)
(* HuggingChatAgent (custom_components/huggingchat_conversation):          *)
(* the conversation agent's async_process coroutine, its in-memory         *)
(* history map, and the collaborators it calls (cookie cache, hugchat      *)
(* ChatBot, Home Assistant template rendering).                            *)
(*                                                                         *)
(* A coroutine runs on the event loop without interruption between two     *)
(* awaits, so every action below is the code from one await to the next.   *)
(* The outcome of a call into a collaborator (success, or the exception it *)
(* raises) is chosen with \E where the caller resumes.                     *)
(***************************************************************************)
EXTENDS Integers, Sequences, FiniteSets, TLC

(* ----------------------------- bounds ---------------------------------- *)

\* number of requests the host submits in one behaviour
MaxRequests == 3

\* number of coroutine slots: the two requests that overlap
NumProcs == 2

Procs == 1..NumProcs

(* ----------------------------- values ---------------------------------- *)

\* conversation ids are <<namespace, n>>: the host's own ids, the ids the
\* remote service assigns, and None (user_input.conversation_id is nullable)
None == <<"none", 0>>

HostIds == {<<"host", 1>>}

RemoteId(n) == <<"remote", n>>

\* user_input.text
Texts == {"hello", "again"}

\* the text of the Message object chatbot.query returns
Replies == {"reply"}

\* hass.config.location_name
location_name == "Home"

\* entry.options[CONF_PROMPT]: a template is a sequence of tokens
\* <<kind, value>>; a "syntax_error" token makes rendering raise
RawPrompts ==
    { << <<"lit", "You are in ">>, <<"var", "ha_name">> >>,
      << <<"lit", "You are in ">>, <<"syntax_error", "{{ ha_name">> >> }

\* the system_prompt argument of the first ChatBot construction: ""
EmptyPrompt == <<>>

(* ------------------------- pure functions ------------------------------ *)

\* template.Template(raw_prompt, hass).async_render({"ha_name": ...}) raises
\* TemplateError when the template does not compile
RenderRaises(raw_prompt) ==
    \E i \in DOMAIN raw_prompt : raw_prompt[i][1] = "syntax_error"

\* a slip: the template is passed on without substitution
Render_Raw(raw_prompt) == [i \in DOMAIN raw_prompt |-> raw_prompt[i][2]]

\* the rendered text: literals kept, ha_name replaced by the location name,
\* any other variable rendered empty
Render(raw_prompt) ==
    [i \in DOMAIN raw_prompt |->
        IF raw_prompt[i][1] = "var"
        THEN (IF raw_prompt[i][2] = "ha_name" THEN location_name ELSE "")
        ELSE raw_prompt[i][2]]

_async_generate_prompt(raw_prompt) == Render(raw_prompt)

\* a turn of the transcript; req is the ordinal of the request that appended
\* it (not a field of the dict in the code, kept to tell equal texts apart)
Turn(role, content, n) == [role |-> role, content |-> content, req |-> n]

\* a slip: the turn is put at the front of the list
AppendTurn_Front(msgs, turn) == <<turn>> \o msgs

\* a slip: the turn is appended twice
AppendTurn_Twice(msgs, turn) == Append(Append(msgs, turn), turn)

\* messages.append(turn)
AppendTurn(msgs, turn) == Append(msgs, turn)

\* a slip: the transcript of a new conversation starts empty
SeedMessages_Empty(prompt_, n) == << >>

\* messages = [{"role": "system", "content": prompt}]
SeedMessages(prompt_, n) == << Turn("system", prompt_, n) >>

\* a slip: the request works on a copy of the stored transcript
ExistingMessages_Copy(stored) == [alias |-> FALSE, list |-> stored]

\* messages = self.history[conversation_id]: the stored list itself
ExistingMessages(stored) == [alias |-> TRUE, list |-> <<>>]

\* a slip: the map is replaced by one that holds this conversation only
Store_Reset(hist, cid, msgs) == (cid :> msgs)

\* self.history[conversation_id] = messages
Store(hist, cid, msgs) == (cid :> msgs) @@ hist

\* a slip: the lookup never finds the id
InHistory_Never(cid, hist) == FALSE

\* user_input.conversation_id in self.history
InHistory(cid, hist) == cid \in DOMAIN hist

\* a slip: the host-supplied id is kept for a new conversation
NewConversationId_Host(user_cid, info_id) == user_cid

\* conversation_id = info.id
NewConversationId(user_cid, info_id) == info_id

\* a slip: the template error response carries user_input.conversation_id
TemplateErrorConversationId_Input(user_cid, cid) == user_cid

\* conversation_id of the template error response (line 128)
TemplateErrorConversationId(user_cid, cid) == cid

\* sign.loadCookiesFromDir raises when the directory holds no saved cookies
LoadRaises(cache) == ~cache

\* a slip: the login runs whether or not the cookies were loaded
AfterLoad_AlwaysLogin(raised) == "login"

\* lines 81-85: the except clause awaits sign.login, otherwise the
\* coroutine goes on to the first ChatBot construction
AfterLoad(raised) == IF raised THEN "login" ELSE "init"

\* str(message): the text of the Message object
Str(message) == message.text

\* exception classes: hugchat.exceptions.* and TemplateError are separate
\* subclasses of Exception
Bases ==
    [ ChatBotInitError     |-> "Exception",
      ChatError            |-> "Exception",
      ModelOverloadedError |-> "Exception",
      TemplateError        |-> "Exception" ]

IsInstance(exc, cls) == exc = cls \/ Bases[exc] = cls

\* the exceptions chatbot.query / str(message) raise
QueryErrors == {"ChatError", "ModelOverloadedError"}

\* the except clauses of the query's try statement, in order, with the
\* message each one sets
QueryHandlers ==
    << [cls |-> "ChatError",
        msg |-> "Sorry, I had a problem talking to HuggingChat server"],
       [cls |-> "ModelOverloadedError",
        msg |-> "Sorry, the HuggingChat model is overloaded"] >>

\* a slip: the first except clause catches every exception of the query
QueryErrorMessage_First(exc) == QueryHandlers[1].msg

\* the message of the first except clause that matches exc
QueryErrorMessage(exc) ==
    LET i == CHOOSE k \in DOMAIN QueryHandlers :
                /\ IsInstance(exc, QueryHandlers[k].cls)
                /\ \A j \in 1..(k-1) : ~IsInstance(exc, QueryHandlers[j].cls)
    IN QueryHandlers[i].msg

\* a slip: an except clause of the query without its return statement
AfterQueryError_FallThrough == "str"

\* lines 151-153, 160-162: each except clause of the query returns
AfterQueryError == "done"

InitErrorMessage == "Sorry, an error occurred when init*ialising the chat"

TemplateErrorMessage == "Sorry, I had a problem with my template"

\* conversation.ConversationResult with an error / a speech response
ErrorResult(msg, exc, cid) ==
    [kind |-> "error", message |-> msg, err |-> exc, speech |-> "",
     conversation_id |-> cid]

SpeechResult(text, cid) ==
    [kind |-> "success", message |-> "", err |-> "none", speech |-> text,
     conversation_id |-> cid]

\* the coroutine ended by an exception that no except clause caught
Raised(exc) ==
    [kind |-> "exception", message |-> "", err |-> exc, speech |-> "",
     conversation_id |-> None]

NoResult ==
    [kind |-> "none", message |-> "", err |-> "none", speech |-> "",
     conversation_id |-> None]

\* hugchat.ChatBot(cookies, default_llm, system_prompt): the client starts
\* on a conversation the remote service creates for it
NewChatBot(n, system_prompt) ==
    [current |-> RemoteId(n), system_prompt |-> system_prompt]

\* a slip: the client stays on the conversation it was constructed with
ChangeConversation_Skip(bot, conv) == bot

\* chatbot.change_conversation(conversation_object)
ChangeConversation(bot, conv) == [bot EXCEPT !.current = conv]

NoChatBot == [current |-> None, system_prompt |-> EmptyPrompt]

(* ------------------------------ state ---------------------------------- *)

VARIABLES
    history,          \* self.history: conversation id -> transcript
    cookieCache,      \* the cookie snapshot directory holds saved cookies
    remoteCount,      \* conversations the remote service has created
    nreq,             \* requests submitted so far
    returned,         \* ids handed back to the host in any response
    pc,               \* where each coroutine is suspended
    user_input,       \* [conversation_id, text, raw_prompt] of the request
    reqno,            \* ordinal of the request a coroutine serves
    chatbot,          \* the coroutine's ChatBot client
    info,             \* id of the conversation get_conversation_info gave
    conversation_id,  \* local conversation_id
    prompt,           \* local prompt
    messages,         \* local messages: an alias of history[conversation_id]
                      \* or a list of its own
    response,         \* what async_process returned (or raised)
    calls,            \* the collaborator calls of the request, in order,
                      \* each with where it ran ("loop" or "worker")
    hist0,            \* history when the request was submitted
    known,            \* the supplied id had been returned before
    loadRaised,       \* loadCookiesFromDir raised in this request
    overlapped        \* some request was submitted while another was in
                      \* flight

vars == <<history, cookieCache, remoteCount, nreq, returned, pc, user_input,
          reqno, chatbot, info, conversation_id, prompt, messages, response,
          calls, hist0, known, loadRaised, overlapped>>

NoInput == [conversation_id |-> None, text |-> "", raw_prompt |-> <<>>]

NoMessages == [alias |-> FALSE, list |-> <<>>]

Init ==
    /\ history = <<>>
    /\ cookieCache \in BOOLEAN
    /\ remoteCount = 0
    /\ nreq = 0
    /\ returned = {}
    /\ pc = [p \in Procs |-> "idle"]
    /\ user_input = [p \in Procs |-> NoInput]
    /\ reqno = [p \in Procs |-> 0]
    /\ chatbot = [p \in Procs |-> NoChatBot]
    /\ info = [p \in Procs |-> None]
    /\ conversation_id = [p \in Procs |-> None]
    /\ prompt = [p \in Procs |-> EmptyPrompt]
    /\ messages = [p \in Procs |-> NoMessages]
    /\ response = [p \in Procs |-> NoResult]
    /\ calls = [p \in Procs |-> <<>>]
    /\ hist0 = [p \in Procs |-> <<>>]
    /\ known = [p \in Procs |-> FALSE]
    /\ loadRaised = [p \in Procs |-> FALSE]
    /\ overlapped = FALSE

\* the list the local name messages refers to
Messages(p, hist) ==
    IF messages[p].alias THEN hist[conversation_id[p]] ELSE messages[p].list

Free(p) == pc[p] \in {"idle", "done"}

\* the ids a host can supply: none, one of its own, or one it was given
SuppliedIds == {None} \cup HostIds \cup returned

(* ----------------------------- actions --------------------------------- *)

Log(p, entries) == [calls EXCEPT ![p] = @ \o entries]

\* lines 64-85 up to the first await: the host submits a request; the
\* cookies are loaded from the snapshot directory, and when that raises the
\* coroutine awaits sign.login on a worker
Start(p, cid, text, raw) ==
    /\ Free(p)
    /\ nreq < MaxRequests
    /\ nreq' = nreq + 1
    /\ reqno' = [reqno EXCEPT ![p] = nreq + 1]
    /\ user_input' = [user_input EXCEPT ![p] =
            [conversation_id |-> cid, text |-> text, raw_prompt |-> raw]]
    /\ chatbot' = [chatbot EXCEPT ![p] = NoChatBot]
    /\ info' = [info EXCEPT ![p] = None]
    /\ conversation_id' = [conversation_id EXCEPT ![p] = None]
    /\ prompt' = [prompt EXCEPT ![p] = EmptyPrompt]
    /\ messages' = [messages EXCEPT ![p] = NoMessages]
    /\ response' = [response EXCEPT ![p] = NoResult]
    /\ calls' = [calls EXCEPT ![p] = << <<"loadCookiesFromDir", "loop">> >>]
    /\ hist0' = [hist0 EXCEPT ![p] = history]
    /\ known' = [known EXCEPT ![p] = cid \in returned]
    /\ loadRaised' = [loadRaised EXCEPT ![p] = LoadRaises(cookieCache)]
    /\ overlapped' = (overlapped \/ \E q \in Procs : ~Free(q))
    /\ pc' = [pc EXCEPT ![p] = AfterLoad(LoadRaises(cookieCache))]
    /\ UNCHANGED <<history, cookieCache, remoteCount, returned>>

\* lines 84-85 and the submission of line 91: sign.login returned on the
\* worker, the cookies are saved, the first ChatBot construction is awaited
LoginDone(p) ==
    /\ pc[p] = "login"
    /\ cookieCache' = TRUE
    /\ calls' = Log(p, << <<"login", "worker">>,
                          <<"saveCookiesToDir", "loop">> >>)
    /\ pc' = [pc EXCEPT ![p] = "init"]
    /\ UNCHANGED <<history, remoteCount, nreq, returned, user_input, reqno,
                   chatbot, info, conversation_id, prompt, messages,
                   response, hist0, known, loadRaised, overlapped>>

\* lines 94-103: the first ChatBot construction raised ChatBotInitError
InitError(p) ==
    /\ pc[p] = "init"
    /\ calls' = Log(p, << <<"ChatBot", "worker">> >>)
    /\ response' = [response EXCEPT ![p] =
            ErrorResult(InitErrorMessage, "ChatBotInitError",
                        user_input[p].conversation_id)]
    /\ returned' = returned \cup ({user_input[p].conversation_id} \ {None})
    /\ pc' = [pc EXCEPT ![p] = "done"]
    /\ UNCHANGED <<history, cookieCache, remoteCount, nreq, user_input,
                   reqno, chatbot, info, conversation_id, prompt, messages,
                   hist0, known, loadRaised, overlapped>>

\* lines 91-93, 105-109 / 113-115: the first ChatBot was constructed; the
\* coroutine branches on the history map and awaits the next worker call
InitOk(p) ==
    /\ pc[p] = "init"
    /\ remoteCount' = remoteCount + 1
    /\ chatbot' = [chatbot EXCEPT ![p] =
                        NewChatBot(remoteCount + 1, EmptyPrompt)]
    /\ calls' = Log(p, << <<"ChatBot", "worker">> >>)
    /\ IF InHistory(user_input[p].conversation_id, history)
       THEN /\ conversation_id' = [conversation_id EXCEPT ![p] =
                                        user_input[p].conversation_id]
            /\ messages' = [messages EXCEPT ![p] =
                    ExistingMessages(history[user_input[p].conversation_id])]
            /\ pc' = [pc EXCEPT ![p] = "refresh_existing"]
       ELSE /\ pc' = [pc EXCEPT ![p] = "info"]
            /\ UNCHANGED <<conversation_id, messages>>
    /\ UNCHANGED <<history, cookieCache, nreq, returned, user_input, reqno,
                   info, prompt, response, hist0, known, loadRaised,
                   overlapped>>

\* lines 139-162 up to the await of line 144: the user turn is appended to
\* messages (to the stored transcript itself when messages is an alias of
\* it) and chatbot.query is called on the event loop; either it raises, or
\* it returns a Message that is handed to str on a worker.
\* msgs, bot, log: messages, chatbot and calls of p as the caller left them
QueryStep(p, msgs, bot, log) ==
    LET cid  == conversation_id'[p]
        turn == Turn("user", user_input[p].text, reqno[p])
    IN
    /\ history' = IF msgs.alias
                  THEN [history EXCEPT ![cid] = AppendTurn(@, turn)]
                  ELSE history
    /\ messages' = [messages EXCEPT ![p] =
            IF msgs.alias THEN msgs
            ELSE [msgs EXCEPT !.list = AppendTurn(@, turn)]]
    /\ chatbot' = [chatbot EXCEPT ![p] = bot]
    /\ calls' = [calls EXCEPT ![p] = log \o << <<"query", "loop">> >>]
    /\ \/ /\ pc' = [pc EXCEPT ![p] = "str"]
          /\ UNCHANGED <<response, returned>>
       \/ \E exc \in QueryErrors :
            /\ response' = [response EXCEPT ![p] =
                    ErrorResult(QueryErrorMessage(exc), exc, cid)]
            /\ returned' = returned \cup {cid}
            /\ pc' = [pc EXCEPT ![p] = AfterQueryError]

\* lines 109-112, 139-144: the remote conversations were refreshed on a
\* worker; the conversation is resolved by id and made the active one
ResolveExisting(p) ==
    /\ pc[p] = "refresh_existing"
    /\ UNCHANGED conversation_id
    /\ QueryStep(p, messages[p],
                 ChangeConversation(chatbot[p], conversation_id[p]),
                 calls[p] \o << <<"get_remote_conversations", "worker">>,
                                <<"get_conversation_from_id", "loop">>,
                                <<"change_conversation", "loop">> >>)
    /\ UNCHANGED <<cookieCache, remoteCount, nreq, user_input, reqno, info,
                   prompt, hist0, known, loadRaised, overlapped>>

\* lines 115-116, 120-129: get_conversation_info returned, rendering the
\* prompt raised TemplateError
TemplateFailed(p) ==
    /\ pc[p] = "info"
    /\ RenderRaises(user_input[p].raw_prompt)
    /\ LET cid == NewConversationId(user_input[p].conversation_id,
                                    chatbot[p].current)
           rid == TemplateErrorConversationId(
                        user_input[p].conversation_id, cid)
       IN /\ info' = [info EXCEPT ![p] = chatbot[p].current]
          /\ conversation_id' = [conversation_id EXCEPT ![p] = cid]
          /\ response' = [response EXCEPT ![p] =
                ErrorResult(TemplateErrorMessage, "TemplateError", rid)]
          /\ returned' = returned \cup ({rid} \ {None})
    /\ calls' = Log(p, << <<"get_conversation_info", "worker">>,
                          <<"async_render", "loop">> >>)
    /\ pc' = [pc EXCEPT ![p] = "done"]
    /\ UNCHANGED <<history, cookieCache, remoteCount, nreq, user_input,
                   reqno, chatbot, prompt, messages, hist0, known,
                   loadRaised, overlapped>>

\* lines 115-119, 131: get_conversation_info returned, the prompt was
\* rendered, the second ChatBot construction is awaited
InfoDone(p) ==
    /\ pc[p] = "info"
    /\ ~RenderRaises(user_input[p].raw_prompt)
    /\ info' = [info EXCEPT ![p] = chatbot[p].current]
    /\ conversation_id' = [conversation_id EXCEPT ![p] =
            NewConversationId(user_input[p].conversation_id,
                              chatbot[p].current)]
    /\ prompt' = [prompt EXCEPT ![p] =
                    _async_generate_prompt(user_input[p].raw_prompt)]
    /\ calls' = Log(p, << <<"get_conversation_info", "worker">>,
                          <<"async_render", "loop">> >>)
    /\ pc' = [pc EXCEPT ![p] = "init2"]
    /\ UNCHANGED <<history, cookieCache, remoteCount, nreq, returned,
                   user_input, reqno, chatbot, messages, response, hist0,
                   known, loadRaised, overlapped>>

\* lines 131-133: the second ChatBot construction raised ChatBotInitError;
\* no try statement encloses it, the coroutine ends with the exception
Init2Error(p) ==
    /\ pc[p] = "init2"
    /\ calls' = Log(p, << <<"ChatBot", "worker">> >>)
    /\ response' = [response EXCEPT ![p] = Raised("ChatBotInitError")]
    /\ pc' = [pc EXCEPT ![p] = "done"]
    /\ UNCHANGED <<history, cookieCache, remoteCount, nreq, returned,
                   user_input, reqno, chatbot, info, conversation_id, prompt,
                   messages, hist0, known, loadRaised, overlapped>>

\* lines 131-134: the second ChatBot was constructed with the rendered
\* prompt; the refresh of the remote conversations is awaited
Init2Ok(p) ==
    /\ pc[p] = "init2"
    /\ remoteCount' = remoteCount + 1
    /\ chatbot' = [chatbot EXCEPT ![p] =
                        NewChatBot(remoteCount + 1, prompt[p])]
    /\ calls' = Log(p, << <<"ChatBot", "worker">> >>)
    /\ pc' = [pc EXCEPT ![p] = "refresh_new"]
    /\ UNCHANGED <<history, cookieCache, nreq, returned, user_input, reqno,
                   info, conversation_id, prompt, messages, response, hist0,
                   known, loadRaised, overlapped>>

\* lines 134-144: the remote conversations were refreshed, the client is
\* switched to the conversation of info, the transcript is seeded
SeedNew(p) ==
    /\ pc[p] = "refresh_new"
    /\ UNCHANGED conversation_id
    /\ QueryStep(p,
                 [alias |-> FALSE,
                  list  |-> SeedMessages(prompt[p], reqno[p])],
                 ChangeConversation(chatbot[p], info[p]),
                 calls[p] \o << <<"get_remote_conversations", "worker">>,
                                <<"change_conversation", "loop">> >>)
    /\ UNCHANGED <<cookieCache, remoteCount, nreq, user_input, reqno, info,
                   prompt, hist0, known, loadRaised, overlapped>>

\* lines 144-162: str(message) raised on the worker
StrError(p) ==
    /\ pc[p] = "str"
    /\ \E exc \in QueryErrors :
         response' = [response EXCEPT ![p] =
            ErrorResult(QueryErrorMessage(exc), exc, conversation_id[p])]
    /\ returned' = returned \cup {conversation_id[p]}
    /\ calls' = Log(p, << <<"str", "worker">> >>)
    /\ pc' = [pc EXCEPT ![p] = AfterQueryError]
    /\ UNCHANGED <<history, cookieCache, remoteCount, nreq, user_input,
                   reqno, chatbot, info, conversation_id, prompt, messages,
                   hist0, known, loadRaised, overlapped>>

\* lines 144, 164-172: str(message) returned the reply; the assistant turn
\* is appended, the transcript is stored under conversation_id
StrDone(p) ==
    /\ pc[p] = "str"
    /\ \E reply \in Replies :
         LET result == Str([text |-> reply])
             cid    == conversation_id[p]
             turn   == Turn("assistant", result, reqno[p])
             stored == AppendTurn(Messages(p, history), turn)
         IN /\ history' = Store(history, cid, stored)
            /\ messages' = [messages EXCEPT ![p] =
                    IF @.alias THEN @ ELSE [@ EXCEPT !.list = stored]]
            /\ response' = [response EXCEPT ![p] = SpeechResult(result, cid)]
            /\ returned' = returned \cup {cid}
    /\ calls' = Log(p, << <<"str", "worker">> >>)
    /\ pc' = [pc EXCEPT ![p] = "done"]
    /\ UNCHANGED <<cookieCache, remoteCount, nreq, user_input, reqno,
                   chatbot, info, conversation_id, prompt, hist0, known,
                   loadRaised, overlapped>>

(* --------------------------- specification ----------------------------- *)

\* requests processed one after another: the host submits a request when no
\* other is in flight
Submit ==
    /\ \A q \in Procs : Free(q)
    /\ \E cid \in SuppliedIds, text \in Texts, raw \in RawPrompts :
            Start(1, cid, text, raw)

Step(p) ==
    \/ LoginDone(p)
    \/ InitError(p)
    \/ InitOk(p)
    \/ ResolveExisting(p)
    \/ TemplateFailed(p)
    \/ InfoDone(p)
    \/ Init2Error(p)
    \/ Init2Ok(p)
    \/ SeedNew(p)
    \/ StrError(p)
    \/ StrDone(p)

Next == Submit \/ \E p \in Procs : Step(p)

Spec == Init /\ [][Next]_vars

\* the inputs of overlapping requests: an unknown host id takes the path of
\* a null id, and the turns of two requests are told apart by their ordinal,
\* so one text and the ids the agent handed out are enough
ConcIds == {None} \cup returned

ConcTexts == {"again"}

\* overlapping requests: the host submits a request whenever a coroutine
\* slot is free (the lowest one), while others are suspended at an await
SubmitConc ==
    \E p \in Procs :
        /\ Free(p)
        /\ \A q \in 1..(p-1) : ~Free(q)
        /\ \E cid \in ConcIds, text \in ConcTexts, raw \in RawPrompts :
                Start(p, cid, text, raw)

NextConc == SubmitConc \/ \E p \in Procs : Step(p)

SpecConc == Init /\ [][NextConc]_vars

(* ------------------------------ claims --------------------------------- *)

Done(p) == pc[p] = "done"

\* the supplied id had a transcript when the request was submitted
Tracked0(p) == user_input[p].conversation_id \in DOMAIN hist0[p]

Called(p, op) == \E i \in DOMAIN calls[p] : calls[p][i][1] = op

Roles(t, role) == {i \in DOMAIN t : t[i].role = role}

Answered(p) == Done(p) /\ response[p].kind \in {"success", "error"}

\* C1: once an id has been returned to the caller (in a success or an error
\* response), a later request that supplies it obtains no new remote
\* conversation id and returns the id it was given.  Stated for the ids of
\* remote conversations; an echoed host id is left out.
C1_ReturnedIdIsReused ==
    \A p \in Procs :
        (known[p] /\ user_input[p].conversation_id[1] = "remote") =>
            /\ ~Called(p, "get_conversation_info")
            /\ Answered(p) =>
                 response[p].conversation_id = user_input[p].conversation_id

\* C2: a successful request whose supplied id has no transcript returns the
\* id the remote service assigned to the fetched conversation, never the
\* supplied id, and the transcript is stored under that id only.
C2_NewIdIsRemoteId ==
    \A p \in Procs :
        (Done(p) /\ ~Tracked0(p) /\ response[p].kind = "success") =>
            /\ response[p].conversation_id = info[p]
            /\ info[p] \in {RemoteId(n) : n \in 1..remoteCount}
            /\ response[p].conversation_id # user_input[p].conversation_id
            /\ DOMAIN history = DOMAIN hist0[p] \cup {info[p]}
            /\ user_input[p].conversation_id \notin DOMAIN history

C2_Witness ==
    \E p \in Procs :
        /\ Done(p) /\ ~Tracked0(p) /\ response[p].kind = "success"
        /\ user_input[p].conversation_id \in HostIds

\* C3: every stored transcript starts with a system turn holding the
\* rendered prompt and has exactly one system turn.
C3_OneLeadingSystemTurn ==
    \A c \in DOMAIN history :
        /\ Len(history[c]) >= 1
        /\ history[c][1].role = "system"
        /\ \E raw \in RawPrompts :
                /\ ~RenderRaises(raw)
                /\ Len(history[c][1].content) = Len(raw)
                /\ \A i \in DOMAIN raw :
                     history[c][1].content[i] =
                        IF raw[i] = <<"var", "ha_name">>
                        THEN location_name ELSE raw[i][2]
        /\ Roles(history[c], "system") = {1}

\* a transcript that outlived a failed and a successful later request
C3_Witness ==
    \E p \in Procs :
        /\ Done(p) /\ Tracked0(p) /\ response[p].kind = "error"
        /\ Len(history[user_input[p].conversation_id]) >= 6

\* C4: in a stored transcript the turns of an earlier request precede those
\* of a later one, and within a request the user turn precedes the
\* assistant turn.
C4_SubmissionOrder ==
    \A c \in DOMAIN history :
        \A i, j \in 2..Len(history[c]) :
            i < j =>
                /\ history[c][i].req <= history[c][j].req
                /\ history[c][i].req = history[c][j].req =>
                     /\ history[c][i].role = "user"
                     /\ history[c][j].role = "assistant"

\* three requests have left turns in one transcript
C4_Witness ==
    \E c \in DOMAIN history :
        /\ Cardinality({history[c][i].req : i \in DOMAIN history[c]}) >= 3
        /\ Len(history[c]) >= 7

\* C5: a request whose id already has a transcript never renders the
\* prompt template, never constructs the client with a rendered prompt, and
\* never adds or replaces a system turn of that transcript.
C5_TrackedNeverReseeds ==
    \A p \in Procs :
        Tracked0(p) =>
            LET c == user_input[p].conversation_id IN
            /\ ~Called(p, "async_render")
            /\ chatbot[p].system_prompt = EmptyPrompt
            /\ prompt[p] = EmptyPrompt
            /\ c \in DOMAIN history
            /\ Roles(history[c], "system") = Roles(hist0[p][c], "system")
            /\ \A i \in Roles(hist0[p][c], "system") :
                    history[c][i] = hist0[p][c][i]

C5_Witness ==
    \E p \in Procs :
        Tracked0(p) /\ Done(p) /\ response[p].kind = "success"

\* C6: a successful request for a tracked id leaves the transcript equal to
\* the one stored before followed by one user turn with the request text
\* and one assistant turn with the reply, and fetches no new remote id.
C6_TrackedSuccessAppendsPair ==
    \A p \in Procs :
        (Done(p) /\ Tracked0(p) /\ response[p].kind = "success") =>
            LET c == user_input[p].conversation_id IN
            /\ response[p].speech \in Replies
            /\ history[c] = hist0[p][c] \o
                    << Turn("user", user_input[p].text, reqno[p]),
                       Turn("assistant", response[p].speech, reqno[p]) >>
            /\ ~Called(p, "get_conversation_info")
            /\ response[p].conversation_id = c

\* the tracked transcript already held a pair of an earlier request
C6_Witness ==
    \E p \in Procs :
        /\ Done(p) /\ Tracked0(p) /\ response[p].kind = "success"
        /\ Len(hist0[p][user_input[p].conversation_id]) >= 3

\* C7: a successful first request (id null, text t, remote id r, reply p)
\* returns r and leaves history[r] = [system(rendered prompt), user(t),
\* assistant(p)].
C7_FirstRequestTranscript ==
    \A p \in Procs :
        (Done(p) /\ user_input[p].conversation_id = None
                 /\ response[p].kind = "success") =>
            LET r   == info[p]
                raw == user_input[p].raw_prompt
            IN
            /\ response[p].conversation_id = r
            /\ r \in DOMAIN history
            /\ Len(history[r]) = 3
            /\ history[r][1].role = "system"
            /\ Len(history[r][1].content) = Len(raw)
            /\ \A i \in DOMAIN raw :
                 history[r][1].content[i] =
                    IF raw[i] = <<"var", "ha_name">>
                    THEN location_name ELSE raw[i][2]
            /\ history[r][2] = Turn("user", user_input[p].text, reqno[p])
            /\ history[r][3] =
                    Turn("assistant", response[p].speech, reqno[p])
            /\ response[p].speech \in Replies

C7_Witness ==
    \E p \in Procs :
        /\ Done(p) /\ user_input[p].conversation_id = None
        /\ response[p].kind = "success"
        /\ user_input[p].text = "hello"

\* the request reached the rendering of the prompt and the rendering raised
RenderingRaised(p) ==
    Called(p, "async_render") /\ RenderRaises(user_input[p].raw_prompt)

\* C8 (as stated): when rendering the prompt template raises, the error
\* response carries the template failure message and the conversation id
\* supplied in the request.
C8_TemplateErrorKeepsInputId ==
    \A p \in Procs :
        RenderingRaised(p) =>
            /\ Done(p)
            /\ response[p].kind = "error"
            /\ response[p].message = TemplateErrorMessage
            /\ response[p].conversation_id = user_input[p].conversation_id

\* C8 (amended): when rendering the prompt template raises, the error
\* response carries the template failure message and the id of the remote
\* conversation fetched for the request, which is not the supplied id.
C8_TemplateErrorCarriesRemoteId ==
    \A p \in Procs :
        RenderingRaised(p) =>
            /\ Done(p)
            /\ response[p].kind = "error"
            /\ response[p].message = TemplateErrorMessage
            /\ response[p].err = "TemplateError"
            /\ response[p].conversation_id = info[p]
            /\ info[p] \in {RemoteId(n) : n \in 1..remoteCount}
            /\ response[p].conversation_id # user_input[p].conversation_id

C8_Witness ==
    \E p \in Procs :
        /\ RenderingRaised(p)
        /\ user_input[p].conversation_id \in HostIds

\* C9: when the query raises the model-overloaded error, the error response
\* names the overload, not the generic server problem, and the transcript
\* of the conversation gains no assistant turn (new and tracked ids).
C9_OverloadNamedNoAssistantTurn ==
    \A p \in Procs :
        (Done(p) /\ response[p].err = "ModelOverloadedError") =>
            LET c == conversation_id[p] IN
            /\ response[p].kind = "error"
            /\ response[p].message =
                    "Sorry, the HuggingChat model is overloaded"
            /\ IF Tracked0(p)
               THEN /\ c = user_input[p].conversation_id
                    /\ Roles(history[c], "assistant") =
                            Roles(hist0[p][c], "assistant")
                    /\ Len(history[c]) = Len(hist0[p][c]) + 1
                    /\ history[c][Len(history[c])].role = "user"
               ELSE /\ c \notin DOMAIN history
                    /\ history = hist0[p]

C9_Witness ==
    \E p \in Procs :
        /\ Done(p) /\ response[p].err = "ModelOverloadedError"
        /\ Tracked0(p)

\* the overload on a new conversation
C9_WitnessNew ==
    \E p \in Procs :
        /\ Done(p) /\ response[p].err = "ModelOverloadedError"
        /\ ~Tracked0(p)

\* C10: no failure of client initialization, template rendering or query
\* submission leaves async_process as an exception: every request ends by
\* returning a success or an error response.
C10_NoExceptionEscapes ==
    \A p \in Procs :
        Done(p) => response[p].kind \in {"success", "error"}

\* C11: every error response carries a non-null conversation id under which
\* the next request continues the dialogue: the id has a transcript, so a
\* request supplying it is treated as an existing conversation.
C11_ErrorIdContinues ==
    \A p \in Procs :
        (Done(p) /\ response[p].kind = "error") =>
            /\ response[p].conversation_id # None
            /\ InHistory(response[p].conversation_id, history)

Count(p, op) == Cardinality({i \in DOMAIN calls[p] : calls[p][i][1] = op})

\* C12: in a request where loading the cached cookies fails, the login runs
\* exactly once and its result is saved to the cache directory before the
\* chat client is constructed and before any query; in a request where the
\* load succeeds, the login does not run.
C12_LoginOnceThenSaved ==
    \A p \in Procs :
        /\ loadRaised[p] =>
            /\ Count(p, "login") <= 1
            /\ pc[p] # "login" =>
                 /\ Count(p, "login") = 1
                 /\ Count(p, "saveCookiesToDir") = 1
                 /\ cookieCache
            /\ \A i \in DOMAIN calls[p] :
                 calls[p][i][1] \in {"ChatBot", "query"} =>
                    \E j, k \in 1..(i-1) :
                        /\ j < k
                        /\ calls[p][j][1] = "login"
                        /\ calls[p][k][1] = "saveCookiesToDir"
        /\ ~loadRaised[p] =>
            /\ Count(p, "login") = 0
            /\ pc[p] # "login"

\* the load raised and the request went on to submit its query
C12_Witness ==
    \E p \in Procs : loadRaised[p] /\ Called(p, "query")

\* a request that loaded the cookies from the cache and submitted its query
C12_WitnessCached ==
    \E p \in Procs : ~loadRaised[p] /\ Called(p, "query")

\* the calls into the credential provider and the remote chat client
CollaboratorOps ==
    {"loadCookiesFromDir", "login", "saveCookiesToDir", "ChatBot",
     "get_remote_conversations", "get_conversation_from_id",
     "change_conversation", "get_conversation_info", "query"}

\* C13: every call to the credential provider (load cookies, login, save
\* cookies) and to the chat client (construct, refresh, resolve by id,
\* switch, fetch info, submit query) runs on the worker pool, never on the
\* event loop; in particular the query submission.
C13_CollaboratorCallsOnWorker ==
    \A p \in Procs :
        \A i \in DOMAIN calls[p] :
            calls[p][i][1] \in CollaboratorOps => calls[p][i][2] = "worker"

\* an assistant turn that does not directly follow the user turn of its own
\* request: no execution of the requests one after another leaves that
NonSerial(t) ==
    \E i \in DOMAIN t :
        /\ t[i].role = "assistant"
        /\ \/ i = 1
           \/ t[i-1].role # "user"
           \/ t[i-1].req # t[i].req

\* C14: requests for one tracked id that overlap race on the transcript: a
\* transcript that no serial execution produces is reachable, and it comes
\* from overlapping requests only.
C14_NonSerialOnlyByOverlap ==
    \A c \in DOMAIN history : NonSerial(history[c]) => overlapped

\* both requests returned a reply, and the transcript they started from is
\* followed by two user turns in a row and then the two assistant turns
C14_Witness ==
    \E p, q \in Procs :
        /\ p # q
        /\ Done(p) /\ response[p].kind = "success" /\ Tracked0(p)
        /\ Done(q) /\ response[q].kind = "success" /\ Tracked0(q)
        /\ user_input[p].conversation_id = user_input[q].conversation_id
        /\ LET c == user_input[p].conversation_id IN
           history[c] = hist0[p][c] \o
                << Turn("user", user_input[p].text, reqno[p]),
                   Turn("user", user_input[q].text, reqno[q]),
                   Turn("assistant", response[p].speech, reqno[p]),
                   Turn("assistant", response[q].speech, reqno[q]) >>

\* C15: a request submits its query at most once; when the query fails the
\* error response is returned at once, with no retry.
C15_QueryAtMostOnce ==
    \A p \in Procs :
        /\ Count(p, "query") <= 1
        /\ Count(p, "str") <= 1
        /\ response[p].err \in QueryErrors =>
            /\ Done(p)
            /\ response[p].kind = "error"
            /\ Count(p, "query") = 1
            /\ calls[p][Len(calls[p])][1] \in {"query", "str"}
            /\ \A i \in DOMAIN calls[p] :
                 calls[p][i][1] = "query" => i >= Len(calls[p]) - 1

\* the query of a tracked conversation failed
C15_Witness ==
    \E p \in Procs :
        response[p].err = "ChatError" /\ Done(p) /\ Tracked0(p)

\* the positions of the calls of op in the request's call sequence
Positions(p, op) == {i \in DOMAIN calls[p] : calls[p][i][1] = op}

\* C16: when a request submits its query, the client's active conversation
\* is the one whose id the request returns: for a tracked id the one
\* resolved from it, for a new conversation the one whose info was fetched
\* before the client was constructed again with the rendered prompt.
C16_QueryOnReturnedConversation ==
    \A p \in Procs :
        Called(p, "query") =>
            /\ chatbot[p].current = conversation_id[p]
            /\ Answered(p) =>
                 response[p].conversation_id = chatbot[p].current
            /\ IF Tracked0(p)
               THEN /\ chatbot[p].current = user_input[p].conversation_id
                    /\ Called(p, "get_conversation_from_id")
               ELSE /\ chatbot[p].current = info[p]
                    /\ chatbot[p].system_prompt = prompt[p]
                    /\ Cardinality(Positions(p, "ChatBot")) = 2
                    /\ \E i \in Positions(p, "get_conversation_info") :
                         \E j \in Positions(p, "ChatBot") : i < j

\* a new conversation answered after the client was constructed twice
C16_Witness ==
    \E p \in Procs :
        /\ Called(p, "query") /\ ~Tracked0(p)
        /\ Done(p) /\ response[p].kind = "success"

\* a tracked conversation at its query
C16_WitnessTracked ==
    \E p \in Procs : Called(p, "query") /\ Tracked0(p)

\* C17: a request that ends in an error response leaves the history map as
\* it was before the request: no key added, no stored transcript changed.
C17_ErrorLeavesHistory ==
    \A p \in Procs :
        (Done(p) /\ response[p].kind = "error") => history = hist0[p]

IsPrefix(s, t) == Len(s) <= Len(t) /\ SubSeq(t, 1, Len(s)) = s

\* C18: the history map is append-only: no conversation id is ever removed,
\* and the transcript stored for an id stays a prefix of the transcript
\* stored for it in every later state.
C18_HistoryAppendOnly ==
    [][\A c \in DOMAIN history :
            /\ c \in DOMAIN history'
            /\ IsPrefix(history[c], history'[c])]_vars

\* two conversations are stored and the request just served has extended
\* the transcript of one of them
C18_Witness ==
    \E p \in Procs :
        /\ Done(p) /\ Tracked0(p)
        /\ Cardinality(DOMAIN history) >= 2
        /\ Len(history[user_input[p].conversation_id]) >
                Len(hist0[p][user_input[p].conversation_id])

Occurrences(t, turn) == Cardinality({i \in DOMAIN t : t[i] = turn})

\* the request of p returned a reply for a conversation it found tracked
TrackedSuccess(p) ==
    Done(p) /\ response[p].kind = "success" /\ Tracked0(p)

\* C19: when two overlapping requests for one tracked id both succeed, no
\* update is lost: after both returned, the transcript holds the user turn
\* and the assistant turn of each of them, under every interleaving.
C19_NoLostUpdate ==
    \A p, q \in Procs :
        (/\ p # q
         /\ TrackedSuccess(p) /\ TrackedSuccess(q)
         /\ user_input[p].conversation_id = user_input[q].conversation_id) =>
            LET t == history[user_input[p].conversation_id] IN
            \A r \in {p, q} :
                /\ Occurrences(t,
                        Turn("user", user_input[r].text, reqno[r])) = 1
                /\ Occurrences(t,
                        Turn("assistant", response[r].speech, reqno[r])) = 1

\* the two requests overlapped: the later one appended its user turn after
\* the earlier one's and returned its reply first
C19_Witness ==
    \E p, q \in Procs :
        /\ p # q
        /\ TrackedSuccess(p) /\ TrackedSuccess(q)
        /\ user_input[p].conversation_id = user_input[q].conversation_id
        /\ LET c == user_input[p].conversation_id IN
           history[c] = hist0[p][c] \o
                << Turn("user", user_input[p].text, reqno[p]),
                   Turn("user", user_input[q].text, reqno[q]),
                   Turn("assistant", response[q].speech, reqno[q]),
                   Turn("assistant", response[p].speech, reqno[p]) >>

====
